---- MODULE Spec2Model ----
(***************************************************************************)
(* A model of jackett_script.py: the Torznab feed extractor                *)
(* (JackettFeedParser._parse_links), the category test of search_request,  *)
(* the two polling coroutines (_loop_requests, _loop_commit) and the       *)
(* start()/stop() lifecycle of one JackettFeedParser on one asyncio event  *)
(* loop (Spec), and main() with its termination thread (MainSpec).         *)
(***************************************************************************)
EXTENDS Integers, Sequences, FiniteSets, TLC

(***************************************************************************)
(* Bounds of the model.                                                    *)
(***************************************************************************)
\* longest feed document (number of <item> elements) given to _parse_links
MaxItems == 2
\* number of start() calls that create tasks (each creates one session, one
\* Feed Poller task and one Commit Poller task)
MaxRuns == 2
\* chunk_size of _add_torrents (100 in the source), scaled down
ChunkSize == 2
\* request_interval and commit_interval of the parser (600 s and 3600 s by
\* default), in clock ticks
RequestInterval == 2
CommitInterval == 3
\* longest cat string given to search_request
MaxCatLen == 4

(***************************************************************************)
(* Python values.  None is Python's None; the empty string is "".          *)
(***************************************************************************)
None == "<None>"

\* Python truthiness of an optional string: None and "" are falsy
Truthy(s) == s # None /\ s # ""

(***************************************************************************)
(* XML documents as ElementTree presents them.  A document is malformed    *)
(* (ElementTree.fromstring raises ParseError) or well formed; a well       *)
(* formed one is seen by _parse_links as the sequence, in document order,  *)
(* of its <item> elements, each the sequence of its children in document   *)
(* order.  A child is a <torznab:attr name= value=>, a <title> or a <link>;*)
(* the text of an element without text is None.                            *)
(***************************************************************************)
Attr(name, value) == [tag |-> "torznab:attr", name |-> name, value |-> value, text |-> None]
Title(text) == [tag |-> "title", name |-> None, value |-> None, text |-> text]
Link(text) == [tag |-> "link", name |-> None, value |-> None, text |-> text]

Doc(items) == [wellformed |-> TRUE, items |-> items]
Malformed == [wellformed |-> FALSE, items |-> <<>>]

\* the children of an item that bear on its key ...
KeyParts ==
    { <<>>,
      <<Attr("infohash", "a")>>,
      <<Attr("infohash", "b")>>,
      <<Attr("infohash", ""), Attr("infohash", "b")>>,
      <<Attr("infohash", ""), Title("a")>>,
      <<Attr("infohash", "a"), Title("b")>>,
      <<Title("b")>>,
      <<Title(None)>>,
      <<Title(None), Title("a")>> }

\* ... and those that bear on its link
LinkParts ==
    { <<>>,
      <<Attr("magneturl", "m")>>,
      <<Attr("magneturl", ""), Attr("magneturl", "m")>>,
      <<Attr("magneturl", ""), Link("n")>>,
      <<Attr("magneturl", "m"), Link("n")>>,
      <<Link("n")>>,
      <<Link(None)>>,
      <<Link(None), Link("n")>> }

Items == { k \o l : k \in KeyParts, l \in LinkParts }

SeqsUpTo(S, n) == UNION { [1..m -> S] : m \in 0..n }

\* the inputs of _parse_links
Feeds == { Malformed } \cup { Doc(s) : s \in SeqsUpTo(Items, MaxItems) }

(***************************************************************************)
(* ElementTree lookups.                                                    *)
(***************************************************************************)
\* Element.findall(tag): the children with that tag, in document order
findall(item, tag) == SelectSeq(item, LAMBDA c : c.tag = tag)

\* item.find(tag) is not None: there is a child with that tag
HasChild(item, tag) == findall(item, tag) # <<>>

\* item.find(tag).text: the text of the first child with that tag
FirstText(item, tag) == Head(findall(item, tag)).text

(***************************************************************************)
(* JackettFeedParser._get_torznab_attribute                                *)
(***************************************************************************)
\* a mutant: the value of the first attribute of that name, empty or not
AttrMatches_FirstOfName(tag, name) == tag.name = name

\* the test of the loop: tag.get('name') == name and tag.get('value')
AttrMatches(tag, name) == tag.name = name /\ Truthy(tag.value)

RECURSIVE FirstMatch(_, _)
FirstMatch(tags, name) ==
    IF tags = <<>> THEN None
    ELSE IF AttrMatches(Head(tags), name) THEN Head(tags).value
    ELSE FirstMatch(Tail(tags), name)

_get_torznab_attribute(item, name) == FirstMatch(findall(item, "torznab:attr"), name)

(***************************************************************************)
(* A Python dict, which keeps insertion order, as a sequence of            *)
(* <<key, value>> pairs with distinct keys.                                *)
(***************************************************************************)
DictKeys(d) == { d[i][1] : i \in 1..Len(d) }
DictGet(d, k) == d[CHOOSE i \in 1..Len(d) : d[i][1] = k][2]

\* a mutant: the first value stored under a key stays
DictSet_KeepFirst(d, k, v) ==
    IF k \in DictKeys(d) THEN d ELSE Append(d, <<k, v>>)

\* d[k] = v: overwrite in place, or insert at the end
DictSet(d, k, v) ==
    IF k \in DictKeys(d)
    THEN [i \in 1..Len(d) |-> IF d[i][1] = k THEN <<k, v>> ELSE d[i]]
    ELSE Append(d, <<k, v>>)

(***************************************************************************)
(* JackettFeedParser._parse_links                                          *)
(***************************************************************************)
\* the key of one item: the infohash attribute, else the title's text
ItemKey(item) ==
    LET key == _get_torznab_attribute(item, "infohash")
    IN  IF ~Truthy(key) /\ HasChild(item, "title")
        THEN FirstText(item, "title")
        ELSE key

\* the value of one item: the magneturl attribute, else the link's text
ItemVal(item) ==
    LET val == _get_torznab_attribute(item, "magneturl")
    IN  IF ~Truthy(val) /\ HasChild(item, "link")
        THEN FirstText(item, "link")
        ELSE val

\* a mutant: an item without a key is stored under its (falsy) key
ItemStep_NoKeyTest(torrent_dict, item) == DictSet(torrent_dict, ItemKey(item), ItemVal(item))

\* one iteration of the loop over rss_xml.iter('item')
ItemStep(torrent_dict, item) ==
    IF Truthy(ItemKey(item))
    THEN DictSet(torrent_dict, ItemKey(item), ItemVal(item))
    ELSE torrent_dict

RECURSIVE ParseLoop(_, _)
ParseLoop(torrent_dict, items) ==
    IF items = <<>> THEN torrent_dict
    ELSE ParseLoop(ItemStep(torrent_dict, Head(items)), Tail(items))

\* the outcome of a call: the exception it raised (None when it returned)
\* and the value it returned
Returned(value) == [raised |-> None, value |-> value]
Raised(exc) == [raised |-> exc, value |-> <<>>]

\* a mutant: torrent_dict is not created anew, it holds an entry of an
\* earlier call
_parse_links_KeepsEntries(doc) ==
    IF ~doc.wellformed THEN Raised("ParseError")
    ELSE Returned(ParseLoop(<< <<"z", "stale">> >>, doc.items))

\* _parse_links(input): ElementTree.fromstring raises ParseError on a
\* malformed document; otherwise the dict built by the loop is returned
_parse_links(doc) ==
    IF ~doc.wellformed THEN Raised("ParseError") ELSE Returned(ParseLoop(<<>>, doc.items))

(***************************************************************************)
(* The feed documents the Jackett service answers with in the model of the *)
(* pollers: malformed, without items, with items that have no key, and     *)
(* with one, two (one key twice), three and four keys; "b" has no link.   *)
(***************************************************************************)
DocEmpty == Doc(<<>>)
DocKeyless == Doc(<< <<Title(None), Link("n")>> >>)
DocOne == Doc(<< <<Attr("infohash", "a"), Attr("magneturl", "m")>> >>)
DocDup ==
    Doc(<< <<Attr("infohash", "a"), Attr("magneturl", "m")>>,
           <<Title("b")>>,
           <<Attr("infohash", "a"), Link("n")>> >>)
DocThree ==
    Doc(<< <<Attr("infohash", "a"), Attr("magneturl", "m")>>,
           <<Title("b")>>,
           <<Title("c"), Link("n")>> >>)

DocFour ==
    Doc(<< <<Attr("infohash", "a"), Attr("magneturl", "m")>>,
           <<Title("b")>>,
           <<Title("c"), Link("n")>>,
           <<Attr("infohash", "d"), Attr("magneturl", "m")>> >>)

PollFeeds == { Malformed, DocEmpty, DocKeyless, DocOne, DocDup, DocThree, DocFour }

(***************************************************************************)
(* The state.                                                              *)
(***************************************************************************)
VARIABLES
    _request_task,  \* JackettFeedParser._request_task: 0 (None) or the run of the task
    _commit_task,   \* JackettFeedParser._commit_task: 0 (None) or the run of the task
    _session,       \* JackettFeedParser._session: 0 (None) or the run of the session
    nruns,          \* the number of start() calls that created a session and tasks
    session,        \* run -> "none", "open" or "closed": the ClientSession of the run
    feed,           \* run -> the task running _loop_requests() of the run
    commit,         \* run -> the task running _loop_commit() of the run
    lastCall,       \* the latest start() or stop() call and how it ended
    sinceFetch,     \* ticks since the latest feed GET was issued (saturating)
    lastFetch,      \* the run whose Feed Poller issued the latest feed GET (0: none)
    input,          \* the document given to _parse_links
    result,         \* what _parse_links did with it
    cat,            \* the cat argument given to search_request
    request,        \* what search_request did with it
    mainPc,         \* where the main thread is in main()
    threadPc,       \* where the termination thread is in close_loop()
    running,        \* the poller task the main loop is running a step of
    loopStop        \* loop.stop has been handed to the main loop

pollerVars ==
    <<_request_task, _commit_task, _session, nruns, session, feed, commit,
      lastCall, sinceFetch, lastFetch>>
parseVars == <<input, result>>
catVars == <<cat, request>>
mainVars == <<mainPc, threadPc, running, loopStop>>
vars == <<pollerVars, parseVars, catVars, mainVars>>

Runs == 1..MaxRuns

Min(a, b) == IF a < b THEN a ELSE b

(***************************************************************************)
(* asyncio tasks.  A task is "start" (created, its first step pending),    *)
(* suspended at an await ("get", "put", "post", "sleep"), "cancelling" or  *)
(* "done"; exc is the exception that ended it.  Task.cancel() on a task that is not done  *)
(* cancels the future the task waits on (the timer of a sleep, the gather  *)
(* and with it the requests in flight) and marks the task: its next step   *)
(* throws CancelledError into the coroutine, which neither loop catches.   *)
(***************************************************************************)
NoFeedTask ==
    [pc |-> "none", must_cancel |-> FALSE, exc |-> None, timer |-> 0,
     raw_response |-> DocEmpty, \* the local of _loop_requests (while it is submitted)
     torrent_links |-> <<>>,  \* the local of _loop_requests
     idx |-> 0,               \* the local of _add_torrents
     inflight |-> {},         \* positions in keys whose PUT is awaited by gather
     completed |-> {},        \* positions in keys whose PUT has returned
     sent |-> <<>>,           \* the uri of every PUT issued by this _add_torrents, in order
     printed |-> "none"]      \* what the latest cycle printed: "exc" (the ParseError,
                              \* to stderr) or "results" (of _add_torrents)

NoCommitTask == [pc |-> "none", must_cancel |-> FALSE, exc |-> None, timer |-> 0]

FeedDone(exc) == [NoFeedTask EXCEPT !.pc = "done", !.exc = exc]
CommitDone(exc) == [NoCommitTask EXCEPT !.pc = "done", !.exc = exc]

Alive(task) == task.pc \notin {"none", "done"}

\* Task.cancel(): nothing on a task that is done; else the awaited future
\* is cancelled and the task marked.  Nothing of the cancelled coroutine is
\* kept (pc "cancelling"): where it is suspended and its locals have no
\* effect on its one remaining step.
\* a mutant: cancel() leaves the task as it is
CancelFeed_NotMarked(task) == task

CancelFeed(task) ==
    IF ~Alive(task) THEN task ELSE [NoFeedTask EXCEPT !.pc = "cancelling", !.must_cancel = TRUE]
CancelCommit(task) ==
    IF ~Alive(task) THEN task ELSE [NoCommitTask EXCEPT !.pc = "cancelling", !.must_cancel = TRUE]

\* the task may take its next step in the coroutine
Runnable(task) == Alive(task) /\ ~task.must_cancel

\* self._session.get / put / post works on an open session only
SessionUsable == _session # 0 /\ session[_session] = "open"
SessionError == IF _session = 0 THEN "AttributeError" ELSE "RuntimeError"

\* a mutant: the sleep is one tick short
SleepTicks_Short(interval) == interval - 1

\* asyncio.sleep(interval) returns after interval at the earliest
SleepTicks(interval) == interval

(***************************************************************************)
(* JackettFeedParser._add_torrents                                         *)
(***************************************************************************)
\* a mutant: the slice is one key too long
ChunkEnd_OneMore(idx, n) == Min(idx + ChunkSize + 1, n)

\* keys[idx:idx + chunk_size] are the positions idx+1 .. ChunkEnd(idx, n)
ChunkEnd(idx, n) == Min(idx + ChunkSize, n)

\* a mutant: range(0, len(keys), chunk_size + 1) skips a key after each chunk
NextIdx_Skip(idx) == idx + ChunkSize + 1

\* the next value of idx in range(0, len(keys), chunk_size)
NextIdx(idx) == idx + ChunkSize

\* a mutant: the batch is over when its first PUT has returned
GatherReturns_First(task) == task.completed # {}

\* await asyncio.gather(*coros) returns when every PUT of the batch has
GatherReturns(task) == task.inflight = {}

\* the coroutines of one batch: a PUT of {'uri': torrents[key]} per key
BatchUris(torrents, idx) ==
    [j \in 1..(ChunkEnd(idx, Len(torrents)) - idx) |-> DictGet(torrents, torrents[idx + j][1])]

\* the task issues the batch at idx and awaits the gather
IssueBatch(task, idx) ==
    [task EXCEPT !.pc = "put", !.idx = idx,
                 !.inflight = @ \cup (idx + 1)..ChunkEnd(idx, Len(task.torrent_links)),
                 !.sent = @ \o BatchUris(task.torrent_links, idx)]

\* the loop of _add_torrents from idx on: the next batch, or the return to
\* _loop_requests, which prints the results and sleeps (the locals of the
\* cycle are not read again: the next cycle assigns them anew)
AddTorrentsFrom(task, idx) ==
    IF idx < Len(task.torrent_links)
    THEN IF SessionUsable THEN IssueBatch(task, idx) ELSE FeedDone(SessionError)
    ELSE [NoFeedTask EXCEPT !.pc = "sleep", !.timer = SleepTicks(RequestInterval),
                            !.printed = "results"]

(***************************************************************************)
(* JackettFeedParser._loop_requests                                        *)
(***************************************************************************)
\* a mutant: the ParseError is not caught and ends the task
CycleBody_ParseErrorEscapes(task, raw_response) ==
    LET parsed == _parse_links(raw_response)
    IN  IF parsed.raised = "ParseError" \/ parsed.value = <<>>
        THEN FeedDone(IF parsed.value = <<>> /\ parsed.raised = None
                      THEN "IndexError" ELSE "ParseError")
        ELSE AddTorrentsFrom([task EXCEPT !.raw_response = raw_response,
                                          !.torrent_links = parsed.value], 0)

\* what the loop does with raw_response up to its next await: the except
\* branch on ParseError; on success the print of the first value, which
\* raises IndexError on an empty dict, then _add_torrents; then the sleep
CycleBody(task, raw_response) ==
    LET parsed == _parse_links(raw_response)
    IN  IF parsed.raised = "ParseError"
        THEN [task EXCEPT !.pc = "sleep", !.timer = SleepTicks(RequestInterval),
                          !.printed = "exc"]
        ELSE IF parsed.value = <<>>
        THEN FeedDone("IndexError")
        ELSE AddTorrentsFrom([task EXCEPT !.raw_response = raw_response,
                                          !.torrent_links = parsed.value], 0)

\* the top of the loop: the GET of the tracker's feed is issued
FeedFetch(r) ==
    /\ Runnable(feed[r])
    /\ feed[r].pc = "start" \/ (feed[r].pc = "sleep" /\ feed[r].timer = 0)
    /\ IF SessionUsable
       THEN /\ feed' = [feed EXCEPT ![r] = [@ EXCEPT !.pc = "get"]]
            /\ lastFetch' = r
            /\ sinceFetch' = 0
       ELSE /\ feed' = [feed EXCEPT ![r] = FeedDone(SessionError)]
            /\ UNCHANGED <<lastFetch, sinceFetch>>
    /\ UNCHANGED <<_request_task, _commit_task, _session, nruns, session, commit, lastCall>>

\* the feed arrives: the rest of the cycle body runs up to its next await
GetResponse(r, raw_response) ==
    /\ Runnable(feed[r])
    /\ feed[r].pc = "get"
    /\ feed' = [feed EXCEPT ![r] = CycleBody(@, raw_response)]
    /\ UNCHANGED <<_request_task, _commit_task, _session, nruns, session, commit, lastCall,
                   sinceFetch, lastFetch>>

\* a mutant: the exception of the GET ends the Commit Poller with the task
GetError_EndsBoth(r) ==
    /\ Runnable(feed[r])
    /\ feed[r].pc = "get"
    /\ feed' = [feed EXCEPT ![r] = FeedDone("ClientError")]
    /\ commit' = [commit EXCEPT ![r] = CancelCommit(@)]
    /\ UNCHANGED <<_request_task, _commit_task, _session, nruns, session, lastCall,
                   sinceFetch, lastFetch>>

\* the GET fails in the transport: the exception ends the task
GetError(r) ==
    /\ Runnable(feed[r])
    /\ feed[r].pc = "get"
    /\ feed' = [feed EXCEPT ![r] = FeedDone("ClientError")]
    /\ UNCHANGED <<_request_task, _commit_task, _session, nruns, session, commit, lastCall,
                   sinceFetch, lastFetch>>

\* one PUT of the batch returns
PutComplete(r, i) ==
    /\ Runnable(feed[r])
    /\ feed[r].pc = "put"
    /\ i \in feed[r].inflight
    /\ feed' = [feed EXCEPT ![r] = [@ EXCEPT !.inflight = @ \ {i}, !.completed = @ \cup {i}]]
    /\ UNCHANGED <<_request_task, _commit_task, _session, nruns, session, commit, lastCall,
                   sinceFetch, lastFetch>>

\* one PUT of the batch fails in the transport: gather raises it at once
\* and the exception ends the task
PutError(r, i) ==
    /\ Runnable(feed[r])
    /\ feed[r].pc = "put"
    /\ i \in feed[r].inflight
    /\ feed' = [feed EXCEPT ![r] = FeedDone("ClientError")]
    /\ UNCHANGED <<_request_task, _commit_task, _session, nruns, session, commit, lastCall,
                   sinceFetch, lastFetch>>

\* the gather returns: the next batch is issued, or the cycle ends in the sleep
GatherDone(r) ==
    /\ Runnable(feed[r])
    /\ feed[r].pc = "put"
    /\ GatherReturns(feed[r])
    /\ feed' = [feed EXCEPT ![r] = AddTorrentsFrom(@, NextIdx(@.idx))]
    /\ UNCHANGED <<_request_task, _commit_task, _session, nruns, session, commit, lastCall,
                   sinceFetch, lastFetch>>

\* the next step of a cancelled task: CancelledError ends it
FeedCancelled(r) ==
    /\ Alive(feed[r])
    /\ feed[r].must_cancel
    /\ feed' = [feed EXCEPT ![r] = FeedDone("CancelledError")]
    /\ UNCHANGED <<_request_task, _commit_task, _session, nruns, session, commit, lastCall,
                   sinceFetch, lastFetch>>

(***************************************************************************)
(* JackettFeedParser._loop_commit                                          *)
(***************************************************************************)
\* the top of the loop: the POST of the commit request is issued
CommitPost(r) ==
    /\ Runnable(commit[r])
    /\ commit[r].pc = "start" \/ (commit[r].pc = "sleep" /\ commit[r].timer = 0)
    /\ commit' = [commit EXCEPT ![r] = IF SessionUsable THEN [@ EXCEPT !.pc = "post"]
                                       ELSE CommitDone(SessionError)]
    /\ UNCHANGED <<_request_task, _commit_task, _session, nruns, session, feed, lastCall,
                   sinceFetch, lastFetch>>

\* the POST returns: the task sleeps commit_interval
PostResponse(r) ==
    /\ Runnable(commit[r])
    /\ commit[r].pc = "post"
    /\ commit' = [commit EXCEPT ![r] = [@ EXCEPT !.pc = "sleep",
                                                 !.timer = SleepTicks(CommitInterval)]]
    /\ UNCHANGED <<_request_task, _commit_task, _session, nruns, session, feed, lastCall,
                   sinceFetch, lastFetch>>

\* the POST fails in the transport: the exception ends the task
PostError(r) ==
    /\ Runnable(commit[r])
    /\ commit[r].pc = "post"
    /\ commit' = [commit EXCEPT ![r] = CommitDone("ClientError")]
    /\ UNCHANGED <<_request_task, _commit_task, _session, nruns, session, feed, lastCall,
                   sinceFetch, lastFetch>>

\* the next step of a cancelled task: CancelledError ends it
CommitCancelled(r) ==
    /\ Alive(commit[r])
    /\ commit[r].must_cancel
    /\ commit' = [commit EXCEPT ![r] = CommitDone("CancelledError")]
    /\ UNCHANGED <<_request_task, _commit_task, _session, nruns, session, feed, lastCall,
                   sinceFetch, lastFetch>>

(***************************************************************************)
(* Time: one tick passes; the timers of the sleeping tasks run down.       *)
(***************************************************************************)
RunDown(task) ==
    IF task.pc = "sleep" /\ task.timer > 0 THEN [task EXCEPT !.timer = @ - 1] ELSE task

Tick ==
    /\ feed' = [r \in Runs |-> RunDown(feed[r])]
    /\ commit' = [r \in Runs |-> RunDown(commit[r])]
    /\ sinceFetch' = IF lastFetch = 0 THEN 0 ELSE Min(sinceFetch + 1, RequestInterval)
    /\ UNCHANGED <<_request_task, _commit_task, _session, nruns, session, lastCall,
                   lastFetch>>

(***************************************************************************)
(* JackettFeedParser.start and JackettFeedParser.stop                      *)
(***************************************************************************)
Call(op, raised, noop) == [op |-> op, raised |-> raised, noop |-> noop]

\* a mutant: start() without its test of _request_task
StartReturnsEarly_Never == FALSE

\* if self._request_task: return
StartReturnsEarly == _request_task # 0

start ==
    IF StartReturnsEarly
    THEN /\ lastCall' = Call("start", None, TRUE)
         /\ UNCHANGED <<_request_task, _commit_task, _session, nruns, session, feed, commit,
                        sinceFetch, lastFetch>>
    ELSE /\ nruns < MaxRuns
         /\ nruns' = nruns + 1
         /\ session' = [session EXCEPT ![nruns'] = "open"]
         /\ _session' = nruns'
         /\ feed' = [feed EXCEPT ![nruns'] = [NoFeedTask EXCEPT !.pc = "start"]]
         /\ commit' = [commit EXCEPT ![nruns'] = [NoCommitTask EXCEPT !.pc = "start"]]
         /\ _request_task' = nruns'
         /\ _commit_task' = nruns'
         /\ lastCall' = Call("start", None, FALSE)
         /\ UNCHANGED <<sinceFetch, lastFetch>>

\* stop(): self._request_task.cancel() raises AttributeError on None; else
\* both tasks are cancelled, both handles cleared and the session closed
\* (_commit_task is None exactly when _request_task is)
stop ==
    IF _request_task = 0
    THEN /\ lastCall' = Call("stop", "AttributeError", FALSE)
         /\ UNCHANGED <<_request_task, _commit_task, _session, nruns, session, feed, commit,
                        sinceFetch, lastFetch>>
    ELSE /\ feed' = [feed EXCEPT ![_request_task] = CancelFeed(@)]
         /\ _request_task' = 0
         /\ commit' = [commit EXCEPT ![_commit_task] = CancelCommit(@)]
         /\ _commit_task' = 0
         /\ session' = [session EXCEPT ![_session] = "closed"]
         /\ lastCall' = Call("stop", None, FALSE)
         /\ UNCHANGED <<_session, nruns, sinceFetch, lastFetch>>

(***************************************************************************)
(* The parser after JackettFeedParser.__init__, and its behaviours.        *)
(***************************************************************************)
NotCalled == [raised |-> "<not called>", value |-> <<>>]

InitParser ==
    /\ _request_task = 0
    /\ _commit_task = 0
    /\ _session = 0
    /\ nruns = 0
    /\ session = [r \in Runs |-> "none"]
    /\ feed = [r \in Runs |-> NoFeedTask]
    /\ commit = [r \in Runs |-> NoCommitTask]
    /\ lastCall = Call("none", None, FALSE)
    /\ sinceFetch = 0
    /\ lastFetch = 0

\* nothing has been given to _parse_links
InitParse ==
    /\ input = DocEmpty
    /\ result = NotCalled

\* nothing has been given to search_request
InitCat ==
    /\ cat = <<>>
    /\ request = NotCalled

\* main() has not been entered
InitMain ==
    /\ mainPc = "init"
    /\ threadPc = "not started"
    /\ running = "none"
    /\ loopStop = FALSE

Init ==
    /\ InitParser
    /\ InitParse
    /\ InitCat
    /\ InitMain

Next ==
    \/ start /\ UNCHANGED <<parseVars, catVars, mainVars>>
    \/ stop /\ UNCHANGED <<parseVars, catVars, mainVars>>
    \/ Tick /\ UNCHANGED <<parseVars, catVars, mainVars>>
    \/ \E r \in Runs : FeedFetch(r) /\ UNCHANGED <<parseVars, catVars, mainVars>>
    \/ \E r \in Runs, doc \in PollFeeds : GetResponse(r, doc) /\ UNCHANGED <<parseVars, catVars, mainVars>>
    \/ \E r \in Runs : GetError(r) /\ UNCHANGED <<parseVars, catVars, mainVars>>
    \/ \E r \in Runs : \E i \in feed[r].inflight : PutComplete(r, i) /\ UNCHANGED <<parseVars, catVars, mainVars>>
    \/ \E r \in Runs : \E i \in feed[r].inflight : PutError(r, i) /\ UNCHANGED <<parseVars, catVars, mainVars>>
    \/ \E r \in Runs : GatherDone(r) /\ UNCHANGED <<parseVars, catVars, mainVars>>
    \/ \E r \in Runs : FeedCancelled(r) /\ UNCHANGED <<parseVars, catVars, mainVars>>
    \/ \E r \in Runs : CommitPost(r) /\ UNCHANGED <<parseVars, catVars, mainVars>>
    \/ \E r \in Runs : PostResponse(r) /\ UNCHANGED <<parseVars, catVars, mainVars>>
    \/ \E r \in Runs : PostError(r) /\ UNCHANGED <<parseVars, catVars, mainVars>>
    \/ \E r \in Runs : CommitCancelled(r) /\ UNCHANGED <<parseVars, catVars, mainVars>>

Spec == Init /\ [][Next]_vars

(***************************************************************************)
(* _parse_links as a function of its input: every document of Feeds is     *)
(* given to it once.                                                       *)
(***************************************************************************)
CallParseLinks ==
    /\ result = NotCalled
    /\ result' = _parse_links(input)
    /\ UNCHANGED <<input, pollerVars, catVars, mainVars>>

ParseInit ==
    /\ InitParser
    /\ input \in Feeds
    /\ result = NotCalled
    /\ InitCat
    /\ InitMain

ParseNext == CallParseLinks

ParseSpec == ParseInit /\ [][ParseNext]_vars

(***************************************************************************)
(* JackettRequestConstructor.search_request and the pattern                *)
(* CATEGORY_STRING = "(^([0-9]+,)*[0-9]+$|(^$))" it tests cat with.  A     *)
(* string is the sequence of its characters; positions are 1-based and    *)
(* position Len(s) + 1 is the end of the string.                           *)
(***************************************************************************)
CatChars == {"0", "1", ",", "-", "a", "\n"}
Cats == UNION { [1..n -> CatChars] : n \in 0..MaxCatLen }

\* the class [0-9]
IsDigit(c) == c \in {"0", "1", "2", "3", "4", "5", "6", "7", "8", "9"}

\* [0-9]+ tried at position i: the positions at which a match can end
DigitsFrom(s, i) ==
    { j \in (i + 1)..(Len(s) + 1) : \A k \in i..(j - 1) : IsDigit(s[k]) }

\* ([0-9]+,)* tried at position i: the positions at which a match can end
RECURSIVE GroupStar(_, _)
GroupStar(s, i) ==
    {i} \cup UNION { GroupStar(s, j + 1) :
                       j \in { k \in DigitsFrom(s, i) : k <= Len(s) /\ s[k] = "," } }

\* ^ of a pattern compiled without re.MULTILINE
AtStart(s, i) == i = 1

\* $ of a pattern compiled without re.MULTILINE: the end of the string, or
\* just before a newline that is the last character of the string
AtEnd(s, i) ==
    \/ i = Len(s) + 1
    \/ i = Len(s) /\ s[i] = "\n"

\* CATEGORY_STRING.match(cat) finds a match (re.match tries position 1 only)
CATEGORY_STRING_match(s) ==
    \/ /\ AtStart(s, 1)
       /\ \E i \in GroupStar(s, 1) : \E j \in DigitsFrom(s, i) : AtEnd(s, j)
    \/ AtStart(s, 1) /\ AtEnd(s, 1)

\* the URL of _url_constructor, by the parts it is formatted from
_url_constructor(query_type, tracker, q, limit, c, maxage, offset) ==
    [t |-> query_type, tracker |-> tracker, q |-> q, limit |-> limit,
     cat |-> c, maxage |-> maxage, offset |-> offset]

search_request(c) ==
    IF ~CATEGORY_STRING_match(c)
    THEN Raised("ValueError")
    ELSE [raised |-> None,
          value |-> _url_constructor("search", "all", <<>>, 50, c, 100, 0)]

CallSearchRequest ==
    /\ request = NotCalled
    /\ request' = search_request(cat)
    /\ UNCHANGED <<cat, pollerVars, parseVars, mainVars>>

CatInit ==
    /\ InitParser
    /\ InitParse
    /\ cat \in Cats
    /\ request = NotCalled
    /\ InitMain

CatNext == CallSearchRequest

CatSpec == CatInit /\ [][CatNext]_vars

(***************************************************************************)
(* main() and the termination thread.  main() starts the parser, starts    *)
(* the thread of close_loop and runs the main event loop; the thread waits *)
(* for the return key, runs parser.stop() on an event loop of its own,     *)
(* statement by statement, and then hands loop.stop to the main loop.  The *)
(* two threads interleave: a step of a poller task on the main loop that   *)
(* leads to the GET or to the POST is taken in two parts (the task is      *)
(* resumed; the call of self._session is made), and the statements of      *)
(* stop() can fall between them.  threadPc is the line the thread is at.   *)
(* The other steps of the tasks are taken whole.                           *)
(***************************************************************************)
\* the main loop takes the next callback: run_forever is running and no
\* step of a task is under way
LoopRuns == mainPc = "run_forever" /\ running = "none"

\* main(), lines 376-383: the parser is started, the thread is started,
\* run_forever is entered
MainStart ==
    /\ mainPc = "init"
    /\ start
    /\ mainPc' = "run_forever"
    /\ threadPc' = "336"
    /\ UNCHANGED <<running, loopStop, parseVars, catVars>>

\* a step that a poller task takes whole on the main loop
LoopStep(A) == LoopRuns /\ A /\ UNCHANGED <<mainVars, parseVars, catVars>>

\* the Feed Poller is resumed at the top of its loop
ResumeFeed(r) ==
    /\ LoopRuns
    /\ r = nruns
    /\ ENABLED FeedFetch(r)
    /\ running' = "feed"
    /\ UNCHANGED <<pollerVars, mainPc, threadPc, loopStop, parseVars, catVars>>

\* the resumed Feed Poller calls self._get: FeedFetch, unless cancel() has
\* marked the task since it was resumed; then the GET is still issued (or
\* raises on a closed session), and the mark cancels it at the await
RunFeedFetch(r) ==
    /\ mainPc = "run_forever"
    /\ running = "feed"
    /\ r = nruns
    /\ IF feed[r].must_cancel
       THEN /\ IF SessionUsable
               THEN /\ feed' = [feed EXCEPT ![r] = CancelFeed(@)]
                    /\ lastFetch' = r
                    /\ sinceFetch' = 0
               ELSE /\ feed' = [feed EXCEPT ![r] = FeedDone(SessionError)]
                    /\ UNCHANGED <<lastFetch, sinceFetch>>
            /\ UNCHANGED <<_request_task, _commit_task, _session, nruns, session, commit,
                           lastCall>>
       ELSE FeedFetch(r)
    /\ running' = "none"
    /\ UNCHANGED <<mainPc, threadPc, loopStop, parseVars, catVars>>

\* the Commit Poller is resumed at the top of its loop
ResumeCommit(r) ==
    /\ LoopRuns
    /\ r = nruns
    /\ ENABLED CommitPost(r)
    /\ running' = "commit"
    /\ UNCHANGED <<pollerVars, mainPc, threadPc, loopStop, parseVars, catVars>>

\* the resumed Commit Poller calls self._post
RunCommitPost(r) ==
    /\ mainPc = "run_forever"
    /\ running = "commit"
    /\ r = nruns
    /\ IF commit[r].must_cancel
       THEN /\ commit' = [commit EXCEPT ![r] = IF SessionUsable THEN CancelCommit(@)
                                               ELSE CommitDone(SessionError)]
            /\ UNCHANGED <<_request_task, _commit_task, _session, nruns, session, feed,
                           lastCall, sinceFetch, lastFetch>>
       ELSE CommitPost(r)
    /\ running' = "none"
    /\ UNCHANGED <<mainPc, threadPc, loopStop, parseVars, catVars>>

\* a statement of the termination thread
ThreadStep(from, to) ==
    /\ threadPc = from
    /\ threadPc' = to
    /\ UNCHANGED <<mainPc, running, loopStop, parseVars, catVars>>

\* _close_loop, line 336: input() returns when the return key is pressed
KeyPressed ==
    /\ ThreadStep("336", "320")
    /\ UNCHANGED pollerVars

\* stop(), line 320: self._request_task.cancel().  A task that is running
\* its step on the main loop is only marked.
StopCancelRequest ==
    /\ threadPc = "320"
    /\ IF _request_task = 0
       THEN /\ ThreadStep("320", "raised")
            /\ lastCall' = Call("stop", "AttributeError", FALSE)
            /\ UNCHANGED feed
       ELSE /\ ThreadStep("320", "321")
            /\ feed' = [feed EXCEPT ![_request_task] =
                           IF running = "feed" THEN [@ EXCEPT !.must_cancel = TRUE]
                           ELSE CancelFeed(@)]
            /\ UNCHANGED lastCall
    /\ UNCHANGED <<_request_task, _commit_task, _session, nruns, session, commit,
                   sinceFetch, lastFetch>>

\* stop(), line 321
StopClearRequest ==
    /\ ThreadStep("321", "323")
    /\ _request_task' = 0
    /\ UNCHANGED <<_commit_task, _session, nruns, session, feed, commit, lastCall,
                   sinceFetch, lastFetch>>

\* stop(), line 323: self._commit_task.cancel()
StopCancelCommit ==
    /\ ThreadStep("323", "324")
    /\ commit' = [commit EXCEPT ![_commit_task] =
                     IF running = "commit" THEN [@ EXCEPT !.must_cancel = TRUE]
                     ELSE CancelCommit(@)]
    /\ UNCHANGED <<_request_task, _commit_task, _session, nruns, session, feed, lastCall,
                   sinceFetch, lastFetch>>

\* stop(), line 324
StopClearCommit ==
    /\ ThreadStep("324", "327")
    /\ _commit_task' = 0
    /\ UNCHANGED <<_request_task, _session, nruns, session, feed, commit, lastCall,
                   sinceFetch, lastFetch>>

\* stop(), line 327: the session is closed and stop() returns
StopCloseSession ==
    /\ ThreadStep("327", "353")
    /\ session' = [session EXCEPT ![_session] = "closed"]
    /\ lastCall' = Call("stop", None, FALSE)
    /\ UNCHANGED <<_request_task, _commit_task, _session, nruns, feed, commit,
                   sinceFetch, lastFetch>>

\* a mutant: the thread stops its own loop only
RequestLoopStop_OwnLoopOnly ==
    /\ threadPc = "353"
    /\ threadPc' = "exited"
    /\ UNCHANGED <<loopStop, mainPc, running, pollerVars, parseVars, catVars>>

\* close_loop, lines 353-354: new_loop.stop(), then
\* loop.call_soon_threadsafe(loop.stop); the thread ends
RequestLoopStop ==
    /\ threadPc = "353"
    /\ threadPc' = "exited"
    /\ loopStop' = TRUE
    /\ UNCHANGED <<mainPc, running, pollerVars, parseVars, catVars>>

\* the main loop runs the callback loop.stop: run_forever returns (line 383)
LoopStops ==
    /\ LoopRuns
    /\ loopStop
    /\ mainPc' = "join"
    /\ UNCHANGED <<threadPc, running, loopStop, pollerVars, parseVars, catVars>>

\* main(), lines 385-387: the thread is joined and main() returns
Join ==
    /\ mainPc = "join"
    /\ threadPc = "exited"
    /\ mainPc' = "returned"
    /\ UNCHANGED <<threadPc, running, loopStop, pollerVars, parseVars, catVars>>

\* time passes while main() runs
MainTick ==
    /\ mainPc = "run_forever"
    /\ Tick
    /\ UNCHANGED <<mainVars, parseVars, catVars>>

ThreadNext ==
    \/ StopCancelRequest
    \/ StopClearRequest
    \/ StopCancelCommit
    \/ StopClearCommit
    \/ StopCloseSession
    \/ RequestLoopStop

MainNext ==
    \/ MainStart
    \/ MainTick
    \/ \E r \in Runs : ResumeFeed(r)
    \/ \E r \in Runs : RunFeedFetch(r)
    \/ \E r \in Runs, doc \in PollFeeds : LoopStep(GetResponse(r, doc))
    \/ \E r \in Runs : LoopStep(GetError(r))
    \/ \E r \in Runs : \E i \in feed[r].inflight : LoopStep(PutComplete(r, i))
    \/ \E r \in Runs : \E i \in feed[r].inflight : LoopStep(PutError(r, i))
    \/ \E r \in Runs : LoopStep(GatherDone(r))
    \/ \E r \in Runs : LoopStep(FeedCancelled(r))
    \/ \E r \in Runs : ResumeCommit(r)
    \/ \E r \in Runs : RunCommitPost(r)
    \/ \E r \in Runs : LoopStep(PostResponse(r))
    \/ \E r \in Runs : LoopStep(PostError(r))
    \/ \E r \in Runs : LoopStep(CommitCancelled(r))
    \/ KeyPressed
    \/ ThreadNext
    \/ LoopStops
    \/ Join

MainSpec == Init /\ [][MainNext]_vars

\* the threads are scheduled: a statement the termination thread has reached
\* is executed, a step the main loop has begun is finished, a callback
\* handed to the running loop is run, and join returns when the thread has
\* ended.  Nothing makes the return key be pressed.
FairMainSpec ==
    /\ MainSpec
    /\ WF_vars(ThreadNext)
    /\ WF_vars(\E r \in Runs : RunFeedFetch(r))
    /\ WF_vars(\E r \in Runs : RunCommitPost(r))
    /\ WF_vars(LoopStops)
    /\ WF_vars(Join)

(***************************************************************************)
(* Properties.                                                             *)
(***************************************************************************)
parserFields == <<_request_task, _commit_task, _session, nruns, session, feed, commit>>

\* the Feed Poller / Commit Poller tasks that still run their loop: created,
\* not done and not cancelled (a cancelled task only has its end left)
ActiveFeedPollers == { r \in Runs : Runnable(feed[r]) }
ActiveCommitPollers == { r \in Runs : Runnable(commit[r]) }

\* C1: after any sequence of start() and stop() calls at most one Feed
\* Poller task and at most one Commit Poller task are active, and a start()
\* issued while the parser is RUNNING (its handle is set) creates no task
\* and no session: it changes nothing of the parser.
C1_AtMostOnePollerOfEachKind ==
    /\ [](Cardinality(ActiveFeedPollers) <= 1 /\ Cardinality(ActiveCommitPollers) <= 1)
    /\ [][(start /\ _request_task # 0) => UNCHANGED parserFields]_vars

\* a start() has just returned early while the Feed Poller it found is active
C1_Witness_StartWhileRunning ==
    /\ lastCall = Call("start", None, TRUE)
    /\ _request_task # 0
    /\ ActiveFeedPollers = {_request_task}
    /\ ActiveCommitPollers = {_commit_task}

\* C2: stop() called while the parser is STOPPED (never started, or already
\* stopped) raises no error and leaves the handles and the session as they
\* were.
C2_StopWhileStoppedIsNoop ==
    [][(stop /\ _request_task = 0) => (lastCall'.raised = None /\ UNCHANGED parserFields)]_vars

\* C3: while the parser is RUNNING and no transport error occurs, a cycle
\* whose feed response parses successfully - whatever the resulting Torrent
\* Map, the empty one included - goes on to submit the entries or to sleep
\* request_interval: the response does not end the Feed Poller.
C3_ParsedFeedKeepsPollerRunning ==
    [][\A r \in Runs : \A doc \in PollFeeds :
          (GetResponse(r, doc) /\ doc.wellformed) => feed'[r].pc \in {"put", "sleep"}]_vars

\* the Feed Poller as it sleeps after a cycle that printed the ParseError
AsleepAfterParseError(task, timer) ==
    task = [NoFeedTask EXCEPT !.pc = "sleep", !.timer = timer, !.printed = "exc"]

\* C4: on a malformed feed the Feed Poller reports the error, issues no
\* add-torrent submission and sleeps request_interval (it is left exactly
\* as after any other cycle, but for what it printed); it leaves that sleep
\* only into the next fetch or by cancellation, and once the interval has
\* passed the next fetch can start.
C4_ParseFailureSkipsOneCycle ==
    /\ [][\A r \in Runs : GetResponse(r, Malformed) =>
             /\ AsleepAfterParseError(feed'[r], RequestInterval)
             /\ feed[r].sent = <<>> /\ feed[r].inflight = {}]_vars
    /\ [][\A r \in Runs :
             ((\E t \in 0..RequestInterval : AsleepAfterParseError(feed[r], t))
                 /\ feed'[r] # feed[r]) =>
             \/ \E t \in 0..RequestInterval : AsleepAfterParseError(feed'[r], t)
             \/ feed'[r].pc = "get" /\ feed[r].timer = 0
             \/ feed'[r].pc = "cancelling"]_vars
    /\ [](\A r \in Runs : AsleepAfterParseError(feed[r], 0) => ENABLED FeedFetch(r))

\* a Feed Poller has fetched again after a cycle that printed the ParseError
C4_Witness_FetchAfterParseError ==
    \E r \in Runs : feed[r].pc = "get" /\ feed[r].printed = "exc" /\ Runnable(feed[r])

\* the batch a position of keys belongs to: keys[0:chunk_size] is batch 0
BatchOf(i) == (i - 1) \div ChunkSize

\* C5: within one cycle at most chunk_size add-torrent submissions are in
\* flight at a time, and no submission of a batch has started (is in flight
\* or has returned) unless every submission of every earlier batch has
\* returned.
C5_BatchesAreSequential ==
    \A r \in Runs :
        LET t == feed[r]
        IN  /\ Cardinality(t.inflight) <= ChunkSize
            /\ \A i \in t.inflight \cup t.completed :
                   \A j \in 1..Len(t.torrent_links) :
                      BatchOf(j) < BatchOf(i) => j \in t.completed

\* in a batch after the first, a later submission has returned while an
\* earlier one of the same batch is still in flight
C5_Witness_OutOfOrderInLaterBatch ==
    \E r \in Runs : \E i, j \in 1..Len(feed[r].torrent_links) :
        /\ feed[r].idx > 0
        /\ i < j /\ BatchOf(i) = BatchOf(j)
        /\ i \in feed[r].inflight /\ j \in feed[r].completed

\* the uri of every entry of a Torrent Map, in the order of its keys
Uris(torrents) == [i \in 1..Len(torrents) |-> torrents[i][2]]

\* C6: in a cycle the submissions issued so far are, in order, the links of
\* the first entries of the Torrent Map, one submission per entry (a link
\* of None is submitted as it is), each of them in flight or returned; and
\* when the cycle goes to its sleep every entry has been submitted and has
\* returned, so the submissions are as many as the entries.
C6_EveryEntrySubmittedOnce ==
    /\ [](\A r \in Runs : feed[r].pc = "put" =>
             /\ Len(feed[r].sent) <= Len(feed[r].torrent_links)
             /\ feed[r].sent = SubSeq(Uris(feed[r].torrent_links), 1, Len(feed[r].sent))
             /\ feed[r].inflight \cup feed[r].completed = 1..Len(feed[r].sent)
             /\ feed[r].inflight \cap feed[r].completed = {})
    /\ [][\A r \in Runs : (feed[r].pc = "put" /\ feed'[r].pc = "sleep") =>
             /\ feed[r].sent = Uris(feed[r].torrent_links)
             /\ feed[r].completed = 1..Len(feed[r].torrent_links)]_vars

\* every submission of a Torrent Map of three entries, one of them without
\* a link, has returned (three is no multiple of the chunk size)
C6_Witness_OddMapSubmitted ==
    \E r \in Runs :
        /\ feed[r].pc = "put"
        /\ Len(feed[r].torrent_links) % ChunkSize # 0
        /\ Len(feed[r].torrent_links) > ChunkSize
        /\ feed[r].completed = 1..Len(feed[r].torrent_links)
        /\ \E i \in 1..Len(feed[r].sent) : feed[r].sent[i] = None

\* C7: the session of a run is closed only when both pollers of the run
\* have ended (a poller whose cancellation is requested but has not taken
\* effect is still alive).
C7_SessionClosedOnlyAfterPollersEnded ==
    \A r \in Runs : session[r] = "closed" => (~Alive(feed[r]) /\ ~Alive(commit[r]))

\* the Feed Poller of run r issues a feed GET in this step
Fetches(r) == FeedFetch(r) /\ feed'[r].pc = "get"

\* C8 as stated: between any two consecutive feed fetches, the last fetch
\* before a stop() and the first after the next start() included, at least
\* request_interval passes.
C8_EveryGapAtLeastInterval ==
    [][\A r \in Runs : (Fetches(r) /\ lastFetch # 0) => sinceFetch >= RequestInterval]_vars

\* C8 as amended: a Feed Poller that has just been started can fetch at
\* once, and between two consecutive fetches of the same Feed Poller task
\* at least request_interval passes.
C8_GapWithinOneRunAtLeastInterval ==
    /\ [](\A r \in Runs : (feed[r].pc = "start" /\ Runnable(feed[r])) => ENABLED Fetches(r))
    /\ [][\A r \in Runs : (Fetches(r) /\ lastFetch = r) => sinceFetch >= RequestInterval]_vars

\* after a stop() and a start(), the new Feed Poller has fetched a second time
C8_Witness_SecondFetchAfterResume ==
    \E r \in Runs :
        /\ r > 1 /\ session[r - 1] = "closed"
        /\ feed[r].pc = "get" /\ feed[r].printed # "none"
        /\ lastFetch = r /\ sinceFetch = 0

(***************************************************************************)
(* What the extractor is to resolve for one item, stated on the item's     *)
(* children and not by the loop of the code.                               *)
(***************************************************************************)
\* the places of the item's Torznab attributes of that name with a
\* non-empty value
AttrPlaces(item, name) ==
    { i \in 1..Len(item) :
        item[i].tag = "torznab:attr" /\ item[i].name = name /\ item[i].value # "" }

\* the places of the item's children with that tag
ChildPlaces(item, tag) == { i \in 1..Len(item) : item[i].tag = tag }

First(places) == CHOOSE i \in places : \A j \in places : i <= j

\* the resolved key: the non-empty infohash attribute value, else the
\* non-empty text of the title child, else none
ResolvedKey(item) ==
    IF AttrPlaces(item, "infohash") # {}
    THEN item[First(AttrPlaces(item, "infohash"))].value
    ELSE IF /\ ChildPlaces(item, "title") # {}
            /\ item[First(ChildPlaces(item, "title"))].text \notin {None, ""}
    THEN item[First(ChildPlaces(item, "title"))].text
    ELSE None

\* the resolved link: the non-empty magneturl attribute value, else the
\* text of the link child, else none
ResolvedLink(item) ==
    IF AttrPlaces(item, "magneturl") # {}
    THEN item[First(AttrPlaces(item, "magneturl"))].value
    ELSE IF ChildPlaces(item, "link") # {}
    THEN item[First(ChildPlaces(item, "link"))].text
    ELSE None

ParseReturned == result # NotCalled /\ result.raised = None

\* C9: the key set of the map _parse_links returns is exactly the set of
\* the resolved keys of the items: an item without a key contributes no
\* entry, an item with a key is in the map also when it has no link.
C9_KeysAreTheResolvedKeys ==
    ParseReturned =>
        DictKeys(result.value) =
            { ResolvedKey(input.items[i]) : i \in 1..Len(input.items) } \ {None}

\* a document of an item without a key and an item with a key and no link,
\* which is in the map with the value None
C9_Witness_KeylessAndLinkless ==
    /\ ParseReturned
    /\ \E i \in 1..Len(input.items) : ResolvedKey(input.items[i]) = None
    /\ \E i \in 1..Len(input.items) :
          /\ ResolvedKey(input.items[i]) # None
          /\ ResolvedLink(input.items[i]) = None
          /\ DictGet(result.value, ResolvedKey(input.items[i])) = None

\* the place of the last item, in document order, that resolves to key k
LastPlace(items, k) ==
    CHOOSE i \in 1..Len(items) :
        /\ ResolvedKey(items[i]) = k
        /\ \A j \in 1..Len(items) : ResolvedKey(items[j]) = k => j <= i

\* C10: the map holds one entry per key, and the value under a key is the
\* resolved link of the last item in document order that resolves to it.
C10_LastItemWins ==
    ParseReturned =>
        /\ Len(result.value) = Cardinality(DictKeys(result.value))
        /\ \A k \in DictKeys(result.value) :
              /\ \E i \in 1..Len(input.items) : ResolvedKey(input.items[i]) = k
              /\ DictGet(result.value, k) = ResolvedLink(input.items[LastPlace(input.items, k)])

\* two items resolve to one key and to different links; the map holds the
\* link of the later one
C10_Witness_SameKeyTwice ==
    /\ ParseReturned
    /\ \E i, j \in 1..Len(input.items) :
          /\ i < j
          /\ ResolvedKey(input.items[i]) # None
          /\ ResolvedKey(input.items[i]) = ResolvedKey(input.items[j])
          /\ ResolvedLink(input.items[i]) # ResolvedLink(input.items[j])
          /\ DictGet(result.value, ResolvedKey(input.items[j])) = ResolvedLink(input.items[j])

\* a comma-separated list of non-negative decimal integers with no trailing
\* comma, or the empty string
ValidCat(s) ==
    \/ s = <<>>
    \/ /\ \A i \in 1..Len(s) : IsDigit(s[i]) \/ s[i] = ","
       /\ IsDigit(s[1]) /\ IsDigit(s[Len(s)])
       /\ \A i \in 1..(Len(s) - 1) : ~(s[i] = "," /\ s[i + 1] = ",")

\* C11: search_request returns a URL exactly when cat is the empty string or
\* a comma-separated list of non-negative decimal integers with no trailing
\* comma; for every other string it raises the validation error and builds
\* no URL.
C11_UrlExactlyForValidCat ==
    request # NotCalled =>
        /\ request.raised = None <=> ValidCat(cat)
        /\ request.raised # None => request = Raised("ValueError")

\* C12: a poller handle is non-null exactly while that poller's task is
\* scheduled: a handle never names a task that has terminated (one ended by
\* an unhandled error, say), and every task that still runs its loop is the
\* one its handle names.
C12_HandleSetIffTaskScheduled ==
    /\ _request_task # 0 => Alive(feed[_request_task])
    /\ _commit_task # 0 => Alive(commit[_commit_task])
    /\ \A r \in Runs : Runnable(feed[r]) => _request_task = r
    /\ \A r \in Runs : Runnable(commit[r]) => _commit_task = r

\* a step in which the Feed Poller of run r issues a request (the GET of a
\* cycle, or the PUTs of a batch) / the Commit Poller of run r its POST
FeedRequestBegins(r) ==
    \/ feed'[r].pc = "get" /\ feed[r].pc # "get"
    \/ feed'[r].pc = "put" /\ feed'[r].sent # feed[r].sent
CommitRequestBegins(r) == commit'[r].pc = "post" /\ commit[r].pc # "post"

\* the pollers of run r have been stopped: start() created them and stop()
\* has taken their handles since
Stopped(r) == r <= nruns /\ _request_task # r

CommitCanStep(r) ==
    \/ ENABLED CommitPost(r)
    \/ ENABLED PostResponse(r)
    \/ commit[r].pc = "sleep" /\ commit[r].timer > 0

\* C14: the two pollers are independent.  No step of one poller's task
\* changes the other's (only start(), stop() and the passing of time touch
\* both), so a poller that ends by an error leaves the other running; the
\* Commit Poller can always take its next step whatever the Feed Poller's
\* state is, and it sleeps commit_interval after every commit and issues
\* the next one only when that sleep is over.
C14_PollersAreIndependent ==
    /\ [][\A r \in Runs : feed'[r] # feed[r] /\ commit'[r] # commit[r]
                              => start \/ stop \/ Tick]_vars
    /\ [](\A r \in Runs : Runnable(commit[r]) => CommitCanStep(r))
    /\ [][\A r \in Runs :
            /\ commit[r].pc = "post" /\ commit'[r].pc = "sleep"
                   => commit'[r].timer = CommitInterval
            /\ commit[r].pc = "sleep" /\ commit'[r].pc = "post"
                   => commit[r].timer = 0]_vars

\* the Feed Poller has ended by a transport error, its last fetch is a
\* request interval old, and the Commit Poller of the same run is issuing a
\* commit
C14_Witness_CommitAfterFeedError ==
    /\ lastCall = Call("start", None, FALSE)
    /\ feed[1] = FeedDone("ClientError")
    /\ Runnable(commit[1])
    /\ commit[1].pc = "post"
    /\ sinceFetch = RequestInterval

\* the entries of a map, and the entries the feed document alone calls for:
\* one per resolved key, with the resolved link of the last item of that key
Entries(d) == { d[i] : i \in 1..Len(d) }
EntriesOfFeed(doc) ==
    { <<k, ResolvedLink(doc.items[LastPlace(doc.items, k)])>> :
        k \in { ResolvedKey(doc.items[i]) : i \in 1..Len(doc.items) } \ {None} }
EntriesOfPollFeed == [doc \in PollFeeds |-> EntriesOfFeed(doc)]

\* C15: the submissions of a cycle are a function of that cycle's feed
\* response alone.  The Torrent Map a cycle submits holds exactly the entries
\* of the response the cycle has received, whatever the earlier cycles
\* received and submitted; it stays as it is until the cycle sleeps, and
\* the submissions of the cycle are the links of its first entries.
C15_SubmissionsFromThisFeedOnly ==
    /\ [][\A r \in Runs :
            feed[r].pc = "get" /\ feed'[r].pc = "put"
                => feed'[r] = CycleBody(feed[r], feed'[r].raw_response)]_vars
    /\ [](\A r \in Runs : feed[r].pc = "put" =>
             /\ Entries(feed[r].torrent_links) = EntriesOfPollFeed[feed[r].raw_response]
             /\ Len(feed[r].torrent_links) = Cardinality(EntriesOfPollFeed[feed[r].raw_response]))
    /\ [][\A r \in Runs :
            feed[r].pc = "put" /\ feed'[r].pc = "put"
                => /\ feed'[r].torrent_links = feed[r].torrent_links
                   /\ feed'[r].sent = SubSeq(Uris(feed[r].torrent_links), 1, Len(feed'[r].sent))]_vars

\* a later cycle of a Feed Poller whose earlier cycle submitted a map: the
\* feed of this cycle has the one item a (which every non-empty feed of
\* PollFeeds has), and a is submitted again, alone
C15_Witness_SecondCycleSubmits ==
    \E r \in Runs :
        /\ feed[r].pc = "put"
        /\ feed[r].printed = "results"
        /\ feed[r].raw_response = DocOne
        /\ feed[r].torrent_links = << <<"a", "m">> >>
        /\ feed[r].sent = <<"m">>

OpenSessions == { r \in Runs : session[r] = "open" }

\* C16: the session is created only by a start() that finds the parser
\* STOPPED and closed only by stop(), self._session is assigned only by
\* start(), and no step of a poller creates or closes a session; while a
\* poller of a run still runs, self._session, which both pollers issue
\* their requests on, is the open session of that run's start(); and at
\* most one session is open at any time.
C16_OneSessionPerRun ==
    /\ [][\A r \in Runs : session'[r] # session[r] =>
             \/ /\ session[r] = "none" /\ session'[r] = "open"
                /\ _request_task = 0 /\ start
             \/ /\ session[r] = "open" /\ session'[r] = "closed"
                /\ stop]_vars
    /\ [][_session' # _session => _request_task = 0 /\ start]_vars
    /\ [](\A r \in Runs : Runnable(feed[r]) \/ Runnable(commit[r])
                              => _session = r /\ session[r] = "open")
    /\ [](Cardinality(OpenSessions) <= 1)

\* the session of the first run is closed, and both pollers of the second
\* run have a request in flight on the session of the second start()
C16_Witness_SecondSessionInUse ==
    /\ session[1] = "closed"
    /\ OpenSessions = {2}
    /\ _session = 2
    /\ feed[2].pc = "get"
    /\ commit[2].pc = "post"

\* the lines of stop() the termination thread can be at
StopLines == {"320", "321", "323", "324", "327"}

\* the stop sequence has had an effect on the parser
StopBegun ==
    \/ _request_task = 0 /\ nruns > 0
    \/ \E r \in Runs : feed[r].must_cancel \/ commit[r].must_cancel
    \/ \E r \in Runs : session[r] = "closed"

\* C17: the termination thread hands the stop over to the main loop: the
\* thread-safe call to the main loop is made before the stop sequence has
\* any effect, the termination thread does not execute the statements of
\* stop() itself, and no statement of stop() is executed while the main
\* loop is in the middle of a poller's step.
C17_StopHandedToMainLoop ==
    /\ StopBegun => loopStop
    /\ threadPc \notin StopLines
    /\ ~(threadPc \in StopLines \ {"320"} /\ running # "none")

\* the return key has been pressed
ReturnPressed == threadPc \notin {"not started", "336"}

\* stop() has completed: both handles are cleared and the session is closed
StopCompleted ==
    /\ threadPc \in {"353", "exited"}
    /\ _request_task = 0 /\ _commit_task = 0
    /\ _session # 0 /\ session[_session] = "closed"

\* C18: graceful shutdown terminates.  Once the return key is pressed
\* parser.stop() completes, loop.stop is handed to the main loop, the main
\* loop stops, the thread is joined and main() returns, however the
\* statements of the termination thread interleave with the steps of the
\* two pollers; loop.stop is requested only after stop() has completed, and
\* the main loop leaves run_forever, and main() returns, only after that.
C18_ShutdownTerminates ==
    /\ ReturnPressed ~> StopCompleted
    /\ ReturnPressed ~> (mainPc = "returned")
    /\ [](loopStop => StopCompleted /\ threadPc = "exited")
    /\ [](mainPc \in {"join", "returned"} => loopStop)
    /\ [](mainPc = "returned" => threadPc = "exited")

\* main() has returned after a shutdown in which the return key was pressed
\* while both pollers were alive and both ended by the cancellation before
\* the main loop stopped
C18_Witness_MainReturned ==
    /\ mainPc = "returned"
    /\ threadPc = "exited"
    /\ feed[1] = FeedDone("CancelledError")
    /\ commit[1] = CommitDone("CancelledError")

\* C19: every request of a poller is issued on an open session: the step in
\* which a resumed poller calls self._get or self._post finds the session
\* open, in every interleaving with the statements of stop() on the
\* termination thread, and no poller ends by the error of a request on a
\* closed session.
C19_RequestsOnOpenSession ==
    /\ [][(\E r \in Runs : RunFeedFetch(r) \/ RunCommitPost(r)) => SessionUsable]_vars
    /\ [](\A r \in Runs : feed[r].exc # "RuntimeError" /\ commit[r].exc # "RuntimeError")

====
